---- MODULE Spec2Model ----
(***************************************************************************)
(* notes.api: the note hierarchy store (note_relations), the team          *)
(* registry, the invitation flow and the access decisions of the note      *)
(* routers, as state machines over the rows of the relational store.       *)
(***************************************************************************)
EXTENDS Integers, FiniteSets, Sequences, TLC

(***************************************************************************)
(* Bounds of the model.                                                    *)
(***************************************************************************)
\* notes that exist while the hierarchy store is exercised
RelNoteCount == 3
\* cap of the note_relations autoincrement id (number of inserts ever made)
MaxRelId == 2

\* notes that exist while the team registry and the invitation flow are exercised
MaxNoteId == 2
\* users that exist (ids 1..UserCount)
UserCount == 2
\* cap of the note_teams autoincrement id (number of memberships ever inserted)
MaxTeamId == 2
\* number of invitation hashes createInvitationHash can hand out
MaxHash == 4
\* notes that exist while the access decisions are exercised
AccessNoteCount == 1
\* cap of the note_teams autoincrement id while the access decisions are exercised
MaxAccessTeamId == 1
\* cap of the number of times an ancestry query evaluates its recursive term
MaxCteDepth == 3
\* POST / requests served in the note-creation specification
MaxPostedNotes == 3
\* most notes of one creator in the note-list specification (two full pages and one note)
MaxListNotes == 61
\* refresh tokens ever signed in the sign-in specification
MaxToken == 4

\* request.userId of a request that carries no auth context
Null == 0

VARIABLES
  notes,        \* rows of table notes: [id, creatorId]
  nextNoteId,   \* next value of the autoincrement primary key of notes
  noteSettings, \* rows of table note_settings: [id, noteId, customHostname, isPublic, invitationHash]
  nextHash,     \* the next invitation hash createInvitationHash returns
  teams,        \* rows of table note_teams: [id, noteId, userId, role]
  nextTeamId,   \* next value of the autoincrement primary key of note_teams
  replaced,     \* history: the invitation hashes a regeneration has replaced
  relations,    \* rows of table note_relations: [id, noteId, parentId]
  nextRelId,    \* next value of the autoincrement primary key of note_relations
  allChecked,   \* history: every attach/reparent applied so far had wouldCreateCycle = FALSE
  sessions,     \* rows of table user_sessions: [token, userId]
  nextToken,    \* the next refresh token signRefreshToken returns
  reply,        \* what the last handler or storage call returned
  pc            \* concurrent requests: where each one stands and what it has read

relVars == <<relations, nextRelId, allChecked>>
noteVars == <<notes, nextNoteId, noteSettings, nextHash, replaced>>
teamVars == <<teams, nextTeamId>>
authVars == <<sessions, nextToken>>
vars == <<relVars, noteVars, teamVars, authVars, reply, pc>>

\* the two requests that run concurrently
Procs == {"r1", "r2"}
Idle == [st |-> "start"]

(***************************************************************************)
(* HierarchyStore: NoteRelationsSequelizeStorage                           *)
(***************************************************************************)
RelNoteIds == 1..RelNoteCount
\* ids a caller may pass: the existing notes and one id that is no note
RelArgIds == 1..(RelNoteCount + 1)

NoteIds(rows) == {n.id : n \in rows}

\* the foreign keys of note_relations.note_id and .parent_id reference notes.id
NoteRelationsModel(noteRows, noteId, parentId) ==
  noteId \in NoteIds(noteRows) /\ parentId \in NoteIds(noteRows)

RowsOfNote(rows, noteId) == {r \in rows : r.noteId = noteId}

\* mutant: the new row is written with child and parent swapped
createNoteRelation_swapped(rows, id, noteId, parentId) ==
  rows \cup {[id |-> id, noteId |-> parentId, parentId |-> noteId]}

\* this.model.create({ noteId, parentId }): always a new row
createNoteRelation(rows, id, noteId, parentId) ==
  rows \cup {[id |-> id, noteId |-> noteId, parentId |-> parentId]}

\* mutant: the update has lost its where clause
updateNoteRelationById_allRows(rows, noteId, parentId) ==
  {[r EXCEPT !.parentId = parentId] : r \in rows}

\* this.model.update({ parentId }, { where: { noteId } }): every row of noteId
updateNoteRelationById(rows, noteId, parentId) ==
  {IF r.noteId = noteId THEN [r EXCEPT !.parentId = parentId] ELSE r : r \in rows}

\* this.model.findOne({ where: { noteId } }): the values the call may resolve to
getParentNoteIdByNoteId(rows, noteId) ==
  IF RowsOfNote(rows, noteId) = {} THEN {Null}
  ELSE {r.parentId : r \in RowsOfNote(rows, noteId)}

\* mutant: only the child column is looked at
hasRelation_childOnly(rows, noteId) == \E r \in rows : r.noteId = noteId

\* this.model.findOne({ where: noteId = :id OR parentId = :id }) !== null
hasRelation(rows, noteId) ==
  \E r \in rows : r.noteId = noteId \/ r.parentId = noteId

\* mutant: the rows are selected by the parent column
unlinkParent_byParent(rows, noteId) == {r \in rows : r.parentId # noteId}

\* this.model.destroy({ where: { noteId } })
unlinkParent(rows, noteId) == {r \in rows : r.noteId # noteId}

\* this.model.destroy({ where: noteId = :id OR parentId = :id })
deleteNoteRelationsByNoteId(rows, noteId) ==
  {r \in rows : r.noteId # noteId /\ r.parentId # noteId}

(***************************************************************************)
(* AncestryResolver.wouldCreateCycle                                       *)
(***************************************************************************)
ParentsOf(rows, S) == {r.parentId : r \in {x \in rows : x.noteId \in S}}

RECURSIVE AncestorsUpTo(_, _, _)
AncestorsUpTo(rows, S, k) ==
  IF k = 0 THEN S ELSE AncestorsUpTo(rows, S \cup ParentsOf(rows, S), k - 1)

\* every note reached from noteId by one or more parent links
Ancestors(rows, noteId) ==
  AncestorsUpTo(rows, ParentsOf(rows, {noteId}), Cardinality(rows))

\* mutant: only the candidate itself and its immediate parent are looked at
wouldCreateCycle_oneLevel(rows, noteId, candidateParentId) ==
  candidateParentId = noteId \/ noteId \in ParentsOf(rows, {candidateParentId})

wouldCreateCycle(rows, noteId, candidateParentId) ==
  candidateParentId = noteId \/ noteId \in Ancestors(rows, candidateParentId)

StorageReply(op, noteId, parentId, ret) ==
  [op |-> op, noteId |-> noteId, parentId |-> parentId, ret |-> ret]

(***************************************************************************)
(* The storage calls as actions.  ret is the boolean the call resolves to, *)
(* or "throws" when the insert or update is rejected by a foreign key.     *)
(***************************************************************************)
CreateNoteRelation ==
  \E noteId \in RelArgIds, parentId \in RelArgIds :
    /\ nextRelId <= MaxRelId
    /\ nextRelId' = nextRelId + 1
    /\ UNCHANGED <<noteVars, teamVars, pc, authVars>>
    /\ IF NoteRelationsModel(notes, noteId, parentId)
       THEN /\ relations' = createNoteRelation(relations, nextRelId, noteId, parentId)
            /\ allChecked' = (allChecked /\ ~wouldCreateCycle(relations, noteId, parentId))
            /\ reply' = StorageReply("createNoteRelation", noteId, parentId, "true")
       ELSE /\ UNCHANGED <<relations, allChecked>>
            /\ reply' = StorageReply("createNoteRelation", noteId, parentId, "throws")

UpdateNoteRelationById ==
  \E noteId \in RelArgIds, parentId \in RelArgIds :
    LET affectedRowsCount == Cardinality(RowsOfNote(relations, noteId)) IN
    /\ UNCHANGED <<nextRelId, noteVars, teamVars, pc, authVars>>
    /\ IF affectedRowsCount > 0 /\ ~NoteRelationsModel(notes, noteId, parentId)
       THEN /\ UNCHANGED <<relations, allChecked>>
            /\ reply' = StorageReply("updateNoteRelationById", noteId, parentId, "throws")
       ELSE /\ relations' = updateNoteRelationById(relations, noteId, parentId)
            /\ allChecked' = (allChecked /\ (affectedRowsCount = 0
                                 \/ ~wouldCreateCycle(relations, noteId, parentId)))
            /\ reply' = StorageReply("updateNoteRelationById", noteId, parentId,
                           IF affectedRowsCount = 1 THEN "true" ELSE "false")

UnlinkParent ==
  \E noteId \in RelArgIds :
    LET affectedRows == Cardinality(RowsOfNote(relations, noteId)) IN
    /\ relations' = unlinkParent(relations, noteId)
    /\ reply' = StorageReply("unlinkParent", noteId, Null,
                   IF affectedRows = 1 THEN "true" ELSE "false")
    /\ UNCHANGED <<nextRelId, allChecked, noteVars, teamVars, pc, authVars>>

DeleteNoteRelationsByNoteId ==
  \E noteId \in RelArgIds :
    LET affectedRows == Cardinality(relations \ deleteNoteRelationsByNoteId(relations, noteId)) IN
    /\ relations' = deleteNoteRelationsByNoteId(relations, noteId)
    /\ reply' = StorageReply("deleteNoteRelationsByNoteId", noteId, Null,
                   IF affectedRows > 0 THEN "true" ELSE "false")
    /\ UNCHANGED <<nextRelId, allChecked, noteVars, teamVars, pc, authVars>>

NoReply == [op |-> "none"]

\* the store after user 1 has created k notes through POST /
StoreWithNotes(k) ==
  /\ notes = {[id |-> n, creatorId |-> 1] : n \in 1..k}
  /\ nextNoteId = k + 1
  /\ noteSettings = {[id |-> n, noteId |-> n, customHostname |-> "", isPublic |-> TRUE,
                      invitationHash |-> n] : n \in 1..k}
  /\ nextHash = k + 1
  /\ replaced = {}

EmptyTeams ==
  /\ teams = {}
  /\ nextTeamId = 1

\* no user has signed in
NoSessions ==
  /\ sessions = {}
  /\ nextToken = 1

InitRelations ==
  /\ StoreWithNotes(RelNoteCount)
  /\ EmptyTeams
  /\ NoSessions
  /\ relations = {}
  /\ nextRelId = 1
  /\ allChecked = TRUE
  /\ reply = NoReply
  /\ pc = [p \in Procs |-> Idle]

NextRelations ==
  \/ CreateNoteRelation
  \/ UpdateNoteRelationById
  \/ UnlinkParent
  \/ DeleteNoteRelationsByNoteId

SpecRelations == InitRelations /\ [][NextRelations]_vars

(***************************************************************************)
(* C1 (no-cycle invariant): while every attach (createNoteRelation) and    *)
(* reparent (updateNoteRelationById) applied since the empty edge set had  *)
(* wouldCreateCycle(noteId, parentId) = FALSE when it was applied, no note *)
(* is its own ancestor (no cycle of any length, length 1 included).        *)
(***************************************************************************)
NoCycle(rows) == \A n \in RelNoteIds : n \notin Ancestors(rows, n)

C1_NoCycleWhenChecked == allChecked => NoCycle(relations)

\* a checked reparent has just moved a note under a new parent in a chain of two edges
C1_Witness ==
  /\ allChecked
  /\ reply.op = "updateNoteRelationById" /\ reply.ret = "true"
  /\ \E a \in relations, b \in relations :
        a.noteId = reply.noteId /\ a.parentId = b.noteId /\ a.id # b.id

(***************************************************************************)
(* C2 (single-parent invariant): after any sequence of attach, reparent    *)
(* and detach calls, attach for a note that already has an edge included,  *)
(* each noteId is the child of at most one stored edge.                    *)
(***************************************************************************)
C2_SingleParent ==
  \A n \in RelNoteIds : Cardinality(RowsOfNote(relations, n)) <= 1

(***************************************************************************)
(* Note settings: NoteSettingsService over the note_settings rows          *)
(***************************************************************************)
Users == 1..UserCount
\* the custom hostnames a settings patch may set; "" stands for none
Hostnames == {"notes.example"}

\* createInvitationHash(): a random, collision-resistant string; the n-th call
\* returns a hash no earlier call returned
createInvitationHash(n) == n

\* addNoteSettings(noteId, isPublic = true)
addNoteSettings(rows, id, noteId, hash) ==
  rows \cup {[id |-> id, noteId |-> noteId, customHostname |-> "", isPublic |-> TRUE,
              invitationHash |-> hash]}

getNoteSettingsByNoteId(rows, noteId) == CHOOSE r \in rows : r.noteId = noteId

\* the fields of data replace those of the row, the others stay
patchNoteSettingsById(rows, id, data) ==
  {IF r.id = id
   THEN [f \in DOMAIN r |-> IF f \in DOMAIN data THEN data[f] ELSE r[f]]
   ELSE r : r \in rows}

patchNoteSettingsByNoteId(rows, noteId, data) ==
  patchNoteSettingsById(rows, getNoteSettingsByNoteId(rows, noteId).id, data)

\* mutant: the new hash is stored in a further settings row, the old row stays
regenerateInvitationHash_addsRow(rows, noteId, hash) ==
  rows \cup {[getNoteSettingsByNoteId(rows, noteId) EXCEPT
                !.id = Cardinality(rows) + 1, !.invitationHash = hash]}

regenerateInvitationHash(rows, noteId, hash) ==
  patchNoteSettingsByNoteId(rows, noteId, [invitationHash |-> hash])

(***************************************************************************)
(* TeamRegistry: the team repository behind NoteSettingsService            *)
(***************************************************************************)
MemberRole_Read == "read"
MemberRole_Write == "write"
MemberRoles == {MemberRole_Read, MemberRole_Write}
NoRole == "null"
NoMember == [id |-> Null, noteId |-> Null, userId |-> Null, role |-> NoRole]

MembersOf(rows, noteId, userId) == {m \in rows : m.noteId = noteId /\ m.userId = userId}

\* create: AlreadyMember when a row of (noteId, userId) exists, else one new row
TeamRepository_create(rows, id, team) ==
  LET m == [id |-> id, noteId |-> team.noteId, userId |-> team.userId, role |-> team.role] IN
  IF MembersOf(rows, team.noteId, team.userId) # {}
  THEN [rows |-> rows, error |-> "AlreadyMember", member |-> NoMember]
  ELSE [rows |-> rows \cup {m}, error |-> "none", member |-> m]

TeamRepository_getUserRoleByUserIdAndNoteId(rows, userId, noteId) ==
  IF MembersOf(rows, noteId, userId) = {} THEN NoRole
  ELSE (CHOOSE m \in MembersOf(rows, noteId, userId) : TRUE).role

\* patchRole: null when the user is no member, else the new role
TeamRepository_patchMemberRoleByUserId(rows, userId, noteId, role) ==
  IF MembersOf(rows, noteId, userId) = {}
  THEN [rows |-> rows, role |-> NoRole]
  ELSE [rows |-> {IF m.noteId = noteId /\ m.userId = userId
                  THEN [m EXCEPT !.role = role] ELSE m : m \in rows},
        role |-> role]

\* removeById: false when no member has the id
TeamRepository_removeMemberById(rows, id) ==
  [rows |-> {m \in rows : m.id # id}, ret |-> (\E m \in rows : m.id = id)]

\* mutant: the service inserts the row without looking for an existing membership
createTeamMember_unchecked(rows, id, team) ==
  LET m == [id |-> id, noteId |-> team.noteId, userId |-> team.userId, role |-> team.role] IN
  [rows |-> rows \cup {m}, error |-> "none", member |-> m]

\* mutant: a create for a pair that is a member already replaces the row and succeeds
createTeamMember_upsert(rows, id, team) ==
  LET m == [id |-> id, noteId |-> team.noteId, userId |-> team.userId, role |-> team.role] IN
  [rows |-> (rows \ MembersOf(rows, team.noteId, team.userId)) \cup {m},
   error |-> "none", member |-> m]

\* mutant: a create is refused only when the stored row has the requested role,
\* otherwise the stored row takes the requested role
createTeamMember_sameRoleOnly(rows, id, team) ==
  IF \E m \in MembersOf(rows, team.noteId, team.userId) : m.role = team.role
  THEN [rows |-> rows, error |-> "AlreadyMember", member |-> NoMember]
  ELSE IF MembersOf(rows, team.noteId, team.userId) # {}
  THEN [rows |-> {IF m \in MembersOf(rows, team.noteId, team.userId)
                  THEN [m EXCEPT !.role = team.role] ELSE m : m \in rows},
        error |-> "none", member |-> NoMember]
  ELSE TeamRepository_create(rows, id, team)

createTeamMember(rows, id, team) == TeamRepository_create(rows, id, team)

\* mutant: only a write membership is reported, a read member has no role
getUserRoleByUserIdAndNoteId_writeOnly(rows, userId, noteId) ==
  IF \E m \in MembersOf(rows, noteId, userId) : m.role = MemberRole_Write
  THEN MemberRole_Write ELSE NoRole

getUserRoleByUserIdAndNoteId(rows, userId, noteId) ==
  TeamRepository_getUserRoleByUserIdAndNoteId(rows, userId, noteId)

\* mutant: the service resolves to true whether or not a row was removed
removeTeamMemberById_alwaysTrue(rows, id) ==
  [rows |-> {m \in rows : m.id # id}, ret |-> TRUE]

removeTeamMemberById(rows, id) == TeamRepository_removeMemberById(rows, id)

(***************************************************************************)
(* InvitationFlow                                                          *)
(***************************************************************************)
\* redeem: InvitationNotFound when no settings row carries the hash, else
\* create(noteId, userId, read)
getNoteSettingsByInvitationHash(settingsRows, hash) ==
  {r \in settingsRows : r.invitationHash = hash}

addUserToTeamByInvitationHash(settingsRows, teamRows, id, hash, userId) ==
  LET found == getNoteSettingsByInvitationHash(settingsRows, hash) IN
  IF found = {}
  THEN [rows |-> teamRows, error |-> "InvitationNotFound", member |-> NoMember]
  ELSE createTeamMember(teamRows, id,
         [noteId |-> (CHOOSE r \in found : TRUE).noteId, userId |-> userId,
          role |-> MemberRole_Read])

\* mutant: the catch block is gone from the reply: the error is not sent
JoinRouter_send_swallowed(res) ==
  [kind |-> "result", error |-> "none", result |-> res.member]

\* mutant: the catch block sends a general failure instead of the error it caught
JoinRouter_send_general(res) ==
  IF res.error # "none"
  THEN [kind |-> "error", error |-> "InternalServerError", result |-> NoMember]
  ELSE [kind |-> "result", error |-> "none", result |-> res.member]

\* POST /join/:hash: reply.send({ error }) in the catch block, else reply.send({ result })
JoinRouter_send(res) ==
  IF res.error # "none"
  THEN [kind |-> "error", error |-> res.error, result |-> NoMember]
  ELSE [kind |-> "result", error |-> "none", result |-> res.member]

(***************************************************************************)
(* AccessDecisionEngine: the policy and the accessRights of the note routes*)
(***************************************************************************)
\* policy notePublicOrUserInTeam
notePublicOrUserInTeam(settingsRows, teamRows, note, userId) ==
  \/ getNoteSettingsByNoteId(settingsRows, note.id).isPublic
  \/ /\ userId # Null
     /\ \/ note.creatorId = userId
        \/ getUserRoleByUserIdAndNoteId(teamRows, userId, note.id) # NoRole

\* preHandler memberRoleResolver: request.memberRole, unset for an anonymous request
memberRoleResolver(teamRows, userId, noteId) ==
  IF userId = Null THEN NoRole ELSE getUserRoleByUserIdAndNoteId(teamRows, userId, noteId)

\* GET /note/:notePublicId, accessRights.canEdit
NoteRouter_canEdit(memberRole, note, userId) ==
  memberRole = MemberRole_Write \/ note.creatorId = userId

\* mutant: any team role lets the user edit
ResolveHostname_canEdit_anyRole(teamRows, note, userId) ==
  IF userId # Null
  THEN getUserRoleByUserIdAndNoteId(teamRows, userId, note.id) # NoRole
       \/ note.creatorId = userId
  ELSE FALSE

\* GET /note/resolve-hostname/:hostname, accessRights.canEdit
ResolveHostname_canEdit(teamRows, note, userId) ==
  IF userId # Null
  THEN LET memberRole == getUserRoleByUserIdAndNoteId(teamRows, userId, note.id) IN
       memberRole = MemberRole_Write \/ note.creatorId = userId
  ELSE FALSE

(***************************************************************************)
(* The request handlers as actions: each one runs whole.                   *)
(***************************************************************************)
NoteById(rows, id) == CHOOSE n \in rows : n.id = id

\* PATCH /note-settings/:notePublicId with body { customHostname?, isPublic? }
PatchNoteSettings ==
  \E noteId \in NoteIds(notes),
     data \in [{"isPublic"} -> BOOLEAN] \cup [{"customHostname"} -> Hostnames \cup {""}] :
    /\ noteSettings' = patchNoteSettingsByNoteId(noteSettings, noteId, data)
    /\ reply' = [op |-> "patchNoteSettings", noteId |-> noteId]
    /\ UNCHANGED <<notes, nextNoteId, nextHash, replaced, relVars, teamVars, pc, authVars>>

\* PATCH /note-settings/:notePublicId/invitation-hash
RegenerateInvitationHash ==
  \E noteId \in NoteIds(notes) :
    /\ nextHash <= MaxHash
    /\ noteSettings' = regenerateInvitationHash(noteSettings, noteId,
                                                createInvitationHash(nextHash))
    /\ nextHash' = nextHash + 1
    /\ replaced' = replaced \cup {getNoteSettingsByNoteId(noteSettings, noteId).invitationHash}
    /\ reply' = [op |-> "regenerateInvitationHash", noteId |-> noteId,
                 invitationHash |-> createInvitationHash(nextHash)]
    /\ UNCHANGED <<notes, nextNoteId, relVars, teamVars, pc, authVars>>

\* mutant: a successful redeem uses the hash up: the note gets a new one
Join_consumesHash ==
  \E hash \in 1..MaxHash, userId \in Users :
    LET res == addUserToTeamByInvitationHash(noteSettings, teams, nextTeamId, hash, userId) IN
    /\ res.error = "none" => nextTeamId <= MaxTeamId
    /\ teams' = res.rows
    /\ nextTeamId' = IF res.error = "none" THEN nextTeamId + 1 ELSE nextTeamId
    /\ reply' = [op |-> "join", hash |-> hash, userId |-> userId, body |-> JoinRouter_send(res)]
    /\ noteSettings' = IF res.error = "none"
                       THEN regenerateInvitationHash(noteSettings, res.member.noteId, MaxHash + 1)
                       ELSE noteSettings
    /\ UNCHANGED <<notes, nextNoteId, nextHash, replaced, relVars, pc, authVars>>

\* POST /join/:hash by an authenticated user
Join ==
  \E hash \in 1..MaxHash, userId \in Users :
    LET res == addUserToTeamByInvitationHash(noteSettings, teams, nextTeamId, hash, userId) IN
    /\ res.error = "none" => nextTeamId <= MaxTeamId
    /\ teams' = res.rows
    /\ nextTeamId' = IF res.error = "none" THEN nextTeamId + 1 ELSE nextTeamId
    /\ reply' = [op |-> "join", hash |-> hash, userId |-> userId, body |-> JoinRouter_send(res)]
    /\ UNCHANGED <<noteVars, relVars, pc, authVars>>

\* NoteSettingsService.createTeamMember(team), while the table holds ids up to cap
CreateTeamMemberUpTo(cap) ==
  \E noteId \in NoteIds(notes), userId \in Users, role \in MemberRoles :
    LET res == createTeamMember(teams, nextTeamId,
                                [noteId |-> noteId, userId |-> userId, role |-> role]) IN
    /\ res.error = "none" => nextTeamId <= cap
    /\ teams' = res.rows
    /\ nextTeamId' = IF res.error = "none" THEN nextTeamId + 1 ELSE nextTeamId
    /\ reply' = [op |-> "createTeamMember", noteId |-> noteId, userId |-> userId,
                 role |-> role, error |-> res.error]
    /\ UNCHANGED <<noteVars, relVars, pc, authVars>>

CreateTeamMember == CreateTeamMemberUpTo(MaxTeamId)

AccessCreateTeamMember == CreateTeamMemberUpTo(MaxAccessTeamId)

\* mutant: the handler has no notFound branch and sends the requested role
PatchMemberRole_alwaysSends ==
  \E noteId \in NoteIds(notes), userId \in Users, newRole \in MemberRoles :
    LET res == TeamRepository_patchMemberRoleByUserId(teams, userId, noteId, newRole) IN
    /\ teams' = res.rows
    /\ reply' = [op |-> "patchMemberRole", noteId |-> noteId, userId |-> userId,
                 out |-> newRole]
    /\ UNCHANGED <<nextTeamId, noteVars, relVars, pc, authVars>>

\* PATCH /note-settings/:notePublicId/team with body { userId, newRole }
PatchMemberRole ==
  \E noteId \in NoteIds(notes), userId \in Users, newRole \in MemberRoles :
    LET res == TeamRepository_patchMemberRoleByUserId(teams, userId, noteId, newRole) IN
    /\ teams' = res.rows
    /\ reply' = [op |-> "patchMemberRole", noteId |-> noteId, userId |-> userId,
                 out |-> IF res.role = NoRole THEN "notFound" ELSE res.role]
    /\ UNCHANGED <<nextTeamId, noteVars, relVars, pc, authVars>>

\* NoteSettingsService.removeTeamMemberById(id)
RemoveTeamMemberById ==
  \E id \in 1..MaxTeamId :
    LET res == removeTeamMemberById(teams, id) IN
    /\ teams' = res.rows
    /\ reply' = [op |-> "removeTeamMemberById", id |-> id, ret |-> res.ret]
    /\ UNCHANGED <<nextTeamId, noteVars, relVars, pc, authVars>>

\* GET /note/:notePublicId, by a user or by an anonymous caller (userId = Null)
GetNote ==
  \E noteId \in 1..MaxNoteId, userId \in Users \cup {Null} :
    /\ reply' =
         IF noteId \notin NoteIds(notes)
         THEN [op |-> "getNote", noteId |-> noteId, userId |-> userId, out |-> "notFound",
               canEdit |-> FALSE]
         ELSE IF ~notePublicOrUserInTeam(noteSettings, teams, NoteById(notes, noteId), userId)
         THEN [op |-> "getNote", noteId |-> noteId, userId |-> userId, out |-> "denied",
               canEdit |-> FALSE]
         ELSE [op |-> "getNote", noteId |-> noteId, userId |-> userId, out |-> "note",
               canEdit |-> NoteRouter_canEdit(memberRoleResolver(teams, userId, noteId),
                                              NoteById(notes, noteId), userId)]
    /\ UNCHANGED <<noteVars, relVars, teamVars, pc, authVars>>

\* GET /note/resolve-hostname/:hostname: the route names no policy
ResolveHostname ==
  \E hostname \in Hostnames, userId \in Users \cup {Null} :
    LET found == {r \in noteSettings : r.customHostname = hostname} IN
    /\ \/ /\ found = {}
          /\ reply' = [op |-> "resolveHostname", noteId |-> Null, userId |-> userId,
                       out |-> "notFound", canEdit |-> FALSE]
       \/ \E r \in found :
            reply' = [op |-> "resolveHostname", noteId |-> r.noteId, userId |-> userId,
                      out |-> "note",
                      canEdit |-> ResolveHostname_canEdit(teams, NoteById(notes, r.noteId),
                                                          userId)]
    /\ UNCHANGED <<noteVars, relVars, teamVars, pc, authVars>>

\* user 1 has created MaxNoteId notes through POST /; nobody is a team member yet
Init ==
  /\ StoreWithNotes(MaxNoteId)
  /\ EmptyTeams
  /\ NoSessions
  /\ relations = {}
  /\ nextRelId = 1
  /\ allChecked = TRUE
  /\ reply = NoReply
  /\ pc = [p \in Procs |-> Idle]

\* the invitation flow
Next ==
  \/ RegenerateInvitationHash
  \/ Join
  \/ RemoveTeamMemberById

Spec == Init /\ [][Next]_vars

\* the team registry
NextTeam ==
  \/ Join
  \/ CreateTeamMember
  \/ PatchMemberRole
  \/ RemoveTeamMemberById

SpecTeam == Init /\ [][NextTeam]_vars

\* user 1 has created AccessNoteCount notes through POST /
InitAccess ==
  /\ StoreWithNotes(AccessNoteCount)
  /\ EmptyTeams
  /\ NoSessions
  /\ relations = {}
  /\ nextRelId = 1
  /\ allChecked = TRUE
  /\ reply = NoReply
  /\ pc = [p \in Procs |-> Idle]

\* the access decisions of the note routes
NextAccess ==
  \/ PatchNoteSettings
  \/ AccessCreateTeamMember
  \/ GetNote
  \/ ResolveHostname

SpecAccess == InitAccess /\ [][NextAccess]_vars

(***************************************************************************)
(* C4 (single-membership invariant): after any sequence of team create,    *)
(* invitation redeem, patchRole and removeById calls there is at most one  *)
(* TeamMember row for each (noteId, userId) pair.                          *)
(***************************************************************************)
C4_SingleMembership ==
  \A n \in 1..MaxNoteId, u \in Users : Cardinality(MembersOf(teams, n, u)) <= 1

\* a create for a pair that is a member already has just been refused
C4_Witness ==
  /\ reply.op = "createTeamMember" /\ reply.error = "AlreadyMember"
  /\ Cardinality(MembersOf(teams, reply.noteId, reply.userId)) = 1

(***************************************************************************)
(* C9 (invitation round-trip): redeeming a note's current invitation hash  *)
(* for a user who is no member yet creates exactly one row (note, user,    *)
(* read) and sends it as the result; redeeming it for a user who is a      *)
(* member already (a second redeem) sends the error AlreadyMember and      *)
(* leaves the rows as they are, one row for the pair.                      *)
(***************************************************************************)
C9_Step ==
  (reply'.op = "join" /\ getNoteSettingsByInvitationHash(noteSettings, reply'.hash) # {}) =>
    LET noteId == (CHOOSE r \in getNoteSettingsByInvitationHash(noteSettings, reply'.hash) :
                     TRUE).noteId
        before == MembersOf(teams, noteId, reply'.userId)
        after == MembersOf(teams', noteId, reply'.userId)
    IN  IF before = {}
        THEN /\ reply'.body.kind = "result"
             /\ Cardinality(after) = 1
             /\ \A m \in after : m.role = MemberRole_Read /\ reply'.body.result = m
             /\ teams' = teams \cup after
        ELSE /\ reply'.body.kind = "error"
             /\ reply'.body.error = "AlreadyMember"
             /\ teams' = teams
             /\ Cardinality(after) = 1

C9_InvitationRoundTrip == [][C9_Step]_vars

\* a redeem by a user whom the hash's note has as read member was answered AlreadyMember
C9_Witness ==
  /\ reply.op = "join" /\ reply.body.kind = "error" /\ reply.body.error = "AlreadyMember"
  /\ \E r \in getNoteSettingsByInvitationHash(noteSettings, reply.hash) :
       \E m \in MembersOf(teams, r.noteId, reply.userId) : m.role = MemberRole_Read

(***************************************************************************)
(* C10 (regeneration invalidation): once a regeneration has replaced a     *)
(* hash, every later redeem of that hash, for any user, is answered        *)
(* InvitationNotFound and creates no membership; every note has one        *)
(* settings row, so one stored hash.                                       *)
(***************************************************************************)
C10_Step ==
  /\ (reply'.op = "join" /\ reply'.hash \in replaced) =>
       /\ reply'.body.kind = "error"
       /\ reply'.body.error = "InvitationNotFound"
       /\ teams' = teams
  /\ \A n \in NoteIds(notes') : Cardinality({r \in noteSettings' : r.noteId = n}) = 1

C10_RegenerationInvalidates == [][C10_Step]_vars

\* a replaced hash has just been redeemed and refused
C10_Witness ==
  /\ reply.op = "join" /\ reply.hash \in replaced
  /\ reply.body.error = "InvitationNotFound"

(***************************************************************************)
(* C11: a redeem does not consume the hash: every redeem, successful or    *)
(* not, leaves every note's stored invitationHash as it was, so the hash   *)
(* just redeemed still resolves to the same note for the next user.        *)
(***************************************************************************)
C11_Step ==
  reply'.op = "join" =>
    /\ noteSettings' = noteSettings
    /\ reply'.body.kind = "result" =>
         \E r \in getNoteSettingsByInvitationHash(noteSettings', reply'.hash) :
           r.noteId = reply'.body.result.noteId

C11_RedeemKeepsHash == [][C11_Step]_vars

\* a second user has just joined a note with the hash another user joined with before
C11_Witness ==
  /\ reply.op = "join" /\ reply.body.kind = "result"
  /\ replaced = {}
  /\ \E m \in teams : /\ m.noteId = reply.body.result.noteId
                      /\ m.userId # reply.userId
                      /\ m.id < reply.body.result.id

(***************************************************************************)
(* C12: a redeem with a hash that no settings row carries (never issued,   *)
(* or replaced) is answered with the error InvitationNotFound and leaves   *)
(* the TeamMember rows as they were.                                       *)
(***************************************************************************)
C12_Step ==
  (reply'.op = "join" /\ getNoteSettingsByInvitationHash(noteSettings, reply'.hash) = {}) =>
    /\ reply'.body.kind = "error"
    /\ reply'.body.error = "InvitationNotFound"
    /\ teams' = teams
    /\ nextTeamId' = nextTeamId

C12_UnknownHashNotFound == [][C12_Step]_vars

\* a hash that createInvitationHash has not handed out yet was redeemed and refused
\* while the note_teams table has rows
C12_Witness ==
  /\ reply.op = "join" /\ reply.hash >= nextHash
  /\ reply.body.kind = "error" /\ reply.body.error = "InvitationNotFound"
  /\ teams # {}

(***************************************************************************)
(* C6: canEdit is true exactly when the user is the note's creator or has  *)
(* the team role write on the note, whatever isPublic is: both routes that *)
(* send accessRights answer canEdit with exactly that value.               *)
(***************************************************************************)
IsPublic(noteId) == getNoteSettingsByNoteId(noteSettings, noteId).isPublic

C6_CanEdit ==
  (reply.op \in {"getNote", "resolveHostname"} /\ reply.out = "note") =>
    (reply.canEdit <=>
       \/ reply.userId = NoteById(notes, reply.noteId).creatorId
       \/ \E m \in teams : /\ m.noteId = reply.noteId /\ m.userId = reply.userId
                           /\ m.role = MemberRole_Write)

\* a read-role member who is not the creator got a public note with canEdit = false
C6_Witness ==
  /\ reply.op \in {"getNote", "resolveHostname"} /\ reply.out = "note"
  /\ IsPublic(reply.noteId)
  /\ reply.userId # NoteById(notes, reply.noteId).creatorId
  /\ \E m \in MembersOf(teams, reply.noteId, reply.userId) : m.role = MemberRole_Read
  /\ ~reply.canEdit

C8_AnonymousReadsPublicOnly ==
  (reply.op \in {"getNote", "resolveHostname"} /\ reply.userId = Null /\ reply.out = "note") =>
    (IsPublic(reply.noteId) /\ ~reply.canEdit)

\* the second half of C8 alone: no route answers an anonymous caller canEdit = true
AnonymousNeverEdits ==
  (reply.op \in {"getNote", "resolveHostname"} /\ reply.userId = Null) => ~reply.canEdit

(***************************************************************************)
(* Two concurrent requests that add a member: TeamRegistry.create, or a    *)
(* redeem, which first resolves the hash and then creates the member.      *)
(***************************************************************************)
\* what a direct caller of createTeamMember gets: the member, or the error thrown
ServiceOutcome(res) ==
  [kind |-> IF res.error # "none" THEN "error" ELSE "result",
   error |-> res.error, result |-> res.member]

TeamCreateRequest(p) ==
  \E noteId \in NoteIds(notes), userId \in Users, role \in MemberRoles :
    LET res == createTeamMember(teams, nextTeamId,
                                [noteId |-> noteId, userId |-> userId, role |-> role]) IN
    /\ pc[p].st = "start"
    /\ teams' = res.rows
    /\ nextTeamId' = IF res.error = "none" THEN nextTeamId + 1 ELSE nextTeamId
    /\ pc' = [pc EXCEPT ![p] = [st |-> "done", noteId |-> noteId, userId |-> userId,
                                sent |-> ServiceOutcome(res)]]
    /\ UNCHANGED <<noteVars, relVars, reply, authVars>>

RedeemResolve(p) ==
  \E hash \in 1..MaxHash, userId \in Users :
    LET found == getNoteSettingsByInvitationHash(noteSettings, hash) IN
    /\ pc[p].st = "start"
    /\ pc' = [pc EXCEPT ![p] =
                IF found = {}
                THEN [st |-> "done", noteId |-> Null, userId |-> userId,
                      sent |-> JoinRouter_send([error |-> "InvitationNotFound",
                                                member |-> NoMember])]
                ELSE [st |-> "resolved", noteId |-> (CHOOSE r \in found : TRUE).noteId,
                      userId |-> userId]]
    /\ UNCHANGED <<noteVars, relVars, teamVars, reply, authVars>>

RedeemCreate(p) ==
  LET res == createTeamMember(teams, nextTeamId,
                              [noteId |-> pc[p].noteId, userId |-> pc[p].userId,
                               role |-> MemberRole_Read]) IN
  /\ pc[p].st = "resolved"
  /\ teams' = res.rows
  /\ nextTeamId' = IF res.error = "none" THEN nextTeamId + 1 ELSE nextTeamId
  /\ pc' = [pc EXCEPT ![p] = [st |-> "done", noteId |-> pc[p].noteId,
                              userId |-> pc[p].userId, sent |-> JoinRouter_send(res)]]
  /\ UNCHANGED <<noteVars, relVars, reply, authVars>>

NextJoinRace == \E p \in Procs : TeamCreateRequest(p) \/ RedeemResolve(p) \/ RedeemCreate(p)

SpecJoinRace == Init /\ [][NextJoinRace]_vars

(***************************************************************************)
(* C5: whatever the interleaving of two concurrent create/redeem requests  *)
(* for the same (noteId, userId) pair, exactly one succeeds, the other     *)
(* receives AlreadyMember, and exactly one row of the pair exists after.   *)
(***************************************************************************)
SamePairDone(p, q) ==
  /\ p # q
  /\ pc[p].st = "done" /\ pc[q].st = "done"
  /\ pc[p].noteId # Null
  /\ pc[p].noteId = pc[q].noteId /\ pc[p].userId = pc[q].userId

C5_OneWinner ==
  \A p \in Procs, q \in Procs :
    SamePairDone(p, q) =>
      /\ Cardinality(MembersOf(teams, pc[p].noteId, pc[p].userId)) = 1
      /\ \/ pc[p].sent.kind = "result" /\ pc[q].sent.error = "AlreadyMember"
         \/ pc[q].sent.kind = "result" /\ pc[p].sent.error = "AlreadyMember"

\* two requests for the same pair have ended, one with the new read member
\* and the other with AlreadyMember
C5_Witness ==
  \E p \in Procs, q \in Procs :
    /\ SamePairDone(p, q)
    /\ pc[p].sent.kind = "result" /\ pc[p].sent.result.role = MemberRole_Read
    /\ pc[q].sent.kind = "error" /\ pc[q].sent.error = "AlreadyMember"

(***************************************************************************)
(* Two concurrent attach/reparent requests.  A request first evaluates the *)
(* cycle check on the rows it reads, and then, in a second statement,      *)
(* writes the edge with createNoteRelation or updateNoteRelationById; the  *)
(* storage calls take no transaction, so the other request may run between *)
(* the two statements.                                                     *)
(***************************************************************************)
\* the forests attach can have built: parentOf[n] = Null for a root
ForestRows(parentOf) ==
  {[id |-> Cardinality({m \in RelNoteIds : m <= n /\ parentOf[m] # Null}),
    noteId |-> n, parentId |-> parentOf[n]] : n \in {m \in RelNoteIds : parentOf[m] # Null}}

SeedForests ==
  {rows \in {ForestRows(f) : f \in [RelNoteIds -> RelNoteIds \cup {Null}]} : NoCycle(rows)}

RelationCheck(p) ==
  \E kind \in {"attach", "reparent"}, noteId \in RelNoteIds, parentId \in RelNoteIds :
    /\ pc[p].st = "start"
    /\ pc' = [pc EXCEPT ![p] = [st |-> "checked", kind |-> kind, noteId |-> noteId,
                                parentId |-> parentId,
                                cycle |-> wouldCreateCycle(relations, noteId, parentId)]]
    /\ UNCHANGED <<relations, nextRelId, allChecked, reply, noteVars, teamVars, authVars>>

RelationWrite(p) ==
  /\ pc[p].st = "checked"
  /\ IF pc[p].cycle
     THEN /\ pc' = [pc EXCEPT ![p] = [st |-> "done", out |-> "CycleDetected",
                                      kind |-> pc[p].kind, noteId |-> pc[p].noteId,
                                      parentId |-> pc[p].parentId]]
          /\ UNCHANGED <<relations, nextRelId>>
     ELSE /\ pc' = [pc EXCEPT ![p] = [st |-> "done", out |-> "written",
                                      kind |-> pc[p].kind, noteId |-> pc[p].noteId,
                                      parentId |-> pc[p].parentId]]
          /\ IF pc[p].kind = "attach"
             THEN /\ relations' = createNoteRelation(relations, nextRelId,
                                                     pc[p].noteId, pc[p].parentId)
                  /\ nextRelId' = nextRelId + 1
             ELSE /\ relations' = updateNoteRelationById(relations,
                                                         pc[p].noteId, pc[p].parentId)
                  /\ UNCHANGED nextRelId
  /\ UNCHANGED <<allChecked, reply, noteVars, teamVars, authVars>>

InitRelationsRace ==
  /\ StoreWithNotes(RelNoteCount)
  /\ EmptyTeams
  /\ NoSessions
  /\ relations \in SeedForests
  /\ nextRelId = Cardinality(relations) + 1
  /\ allChecked = TRUE
  /\ reply = NoReply
  /\ pc = [p \in Procs |-> Idle]

NextRelationsRace == \E p \in Procs : RelationCheck(p) \/ RelationWrite(p)

SpecRelationsRace == InitRelationsRace /\ [][NextRelationsRace]_vars

(***************************************************************************)
(* C3: the cycle check and the edge write are atomic with respect to each  *)
(* other: whatever the interleaving of two concurrent attach/reparent      *)
(* requests, once both have ended the edge set contains no cycle.          *)
(***************************************************************************)
C3_NoCycleAfterConcurrentRequests ==
  (\A p \in Procs : pc[p].st = "done") => NoCycle(relations)

(***************************************************************************)
(* The ancestry queries getNoteParentsIds and getUltimateParentByNoteId:   *)
(* one recursive common table expression, note_parents, evaluated level by *)
(* level over the rows of note_relations, which the query reads in some    *)
(* scan order.  UNION ALL keeps every row the recursive term yields.       *)
(***************************************************************************)
\* the request of the specifications in which one request runs alone
Walker == "r1"

\* the edge sets the storage calls can leave behind: any rows with distinct ids
\* f[i] is the (noteId, parentId) of the row with id i; noteId = Null: no such row
EdgeRows(f) ==
  {[id |-> i, noteId |-> f[i][1], parentId |-> f[i][2]] :
     i \in {j \in DOMAIN f : f[j][1] # Null}}

EdgeSets ==
  {EdgeRows(f) : f \in [1..MaxRelId -> (RelNoteIds \cup {Null}) \X RelNoteIds]}

\* the orders in which a scan of the table can yield its rows
Scans(rows) ==
  {scan \in [1..Cardinality(rows) -> rows] :
     \A i, j \in 1..Cardinality(rows) : scan[i] = scan[j] => i = j}

IsRowOfNote(r, noteId) == r.noteId = noteId

\* SELECT ... FROM note_relations np WHERE np.note_id = :startNoteId
note_parents_seed(scan, startNoteId) ==
  SelectSeq(scan, LAMBDA r : IsRowOfNote(r, startNoteId))

\* SELECT ... FROM note_relations nr INNER JOIN note_parents np ON np.parent_id = nr.note_id,
\* np ranging over the rows of the previous level
RECURSIVE note_parents_step(_, _)
note_parents_step(scan, working) ==
  IF working = <<>> THEN <<>>
  ELSE note_parents_seed(scan, Head(working).parentId)
         \o note_parents_step(scan, Tail(working))

Reverse(seq) == [i \in 1..Len(seq) |-> seq[Len(seq) + 1 - i]]

\* mutant: the parent ids are returned in the order the query yields them
getNoteParentsIds_notReversed(cte) == [i \in 1..Len(cte) |-> cte[i].parentId]

\* result.map(note => note.parentId), then noteParents.reverse()
getNoteParentsIds(cte) == Reverse([i \in 1..Len(cte) |-> cte[i].parentId])

\* ORDER BY np.parent_id ASC LIMIT 1; null when the query yields no row
getUltimateParentByNoteId(cte) ==
  IF cte = <<>> THEN Null
  ELSE CHOOSE m \in {cte[i].parentId : i \in 1..Len(cte)} :
         \A i \in 1..Len(cte) : m <= cte[i].parentId

\* the query starts: the non-recursive term is evaluated
AncestryQuery(p) ==
  \E startNoteId \in RelNoteIds, scan \in Scans(relations) :
    /\ pc[p].st = "start"
    /\ pc' = [pc EXCEPT ![p] =
                [st |-> "cte", startNoteId |-> startNoteId, scan |-> scan, depth |-> 0,
                 working |-> note_parents_seed(scan, startNoteId),
                 cte |-> note_parents_seed(scan, startNoteId)]]
    /\ UNCHANGED <<relVars, noteVars, teamVars, reply, authVars>>

\* one evaluation of the recursive term; the query ends when the last level is empty
CteIterate(p) ==
  /\ pc[p].st = "cte"
  /\ IF pc[p].working = <<>>
     THEN pc' = [pc EXCEPT ![p] =
                   [st |-> "done", startNoteId |-> pc[p].startNoteId, depth |-> pc[p].depth,
                    parents |-> getNoteParentsIds(pc[p].cte),
                    ultimate |-> getUltimateParentByNoteId(pc[p].cte)]]
     ELSE /\ pc[p].depth < MaxCteDepth
          /\ pc' = [pc EXCEPT ![p] =
                      [@ EXCEPT !.depth = @ + 1,
                                !.working = note_parents_step(pc[p].scan, pc[p].working),
                                !.cte = pc[p].cte \o note_parents_step(pc[p].scan,
                                                                      pc[p].working)]]
  /\ UNCHANGED <<relVars, noteVars, teamVars, reply, authVars>>

\* the rows are whatever direct storage calls have left in the table
InitAncestry ==
  /\ StoreWithNotes(RelNoteCount)
  /\ EmptyTeams
  /\ NoSessions
  /\ relations \in EdgeSets
  /\ nextRelId = MaxRelId + 1
  /\ allChecked = FALSE
  /\ reply = NoReply
  /\ pc = [p \in Procs |-> Idle]

NextAncestry == AncestryQuery(Walker) \/ CteIterate(Walker)

SpecAncestry == InitAncestry /\ [][NextAncestry]_vars

\* the store the hierarchy is meant to be: no cycle, and one edge per child at most
IsForest(rows) ==
  /\ NoCycle(rows)
  /\ \A n \in RelNoteIds : Cardinality(RowsOfNote(rows, n)) <= 1

HasEdge(rows, noteId, parentId) ==
  \E r \in rows : r.noteId = noteId /\ r.parentId = parentId

(***************************************************************************)
(* C13 (ancestor chain): over an acyclic single-parent edge set,           *)
(* getNoteParentsIds(n) returns exactly the ancestors of n, each once,     *)
(* from the root down to the immediate parent of n, and the empty sequence *)
(* when n has no parent.                                                   *)
(***************************************************************************)
C13_AncestorChain ==
  (pc[Walker].st = "done" /\ IsForest(relations)) =>
    LET chain == pc[Walker].parents
        n == Len(chain)
        start == pc[Walker].startNoteId
    IN  /\ {chain[i] : i \in 1..n} = Ancestors(relations, start)
        /\ n = Cardinality(Ancestors(relations, start))
        /\ n > 0 => HasEdge(relations, start, chain[n])
        /\ \A i \in 1..(n - 1) : HasEdge(relations, chain[i + 1], chain[i])

\* the query has returned [C, B] for a note A whose parent is B, whose parent is C
C13_Witness ==
  /\ pc[Walker].st = "done" /\ IsForest(relations)
  /\ Len(pc[Walker].parents) = 2
  /\ HasEdge(relations, pc[Walker].startNoteId, pc[Walker].parents[2])
  /\ HasEdge(relations, pc[Walker].parents[2], pc[Walker].parents[1])

(***************************************************************************)
(* C14 (ultimate root): over an acyclic single-parent edge set,            *)
(* getUltimateParentByNoteId(n) returns the ancestor of n that has no      *)
(* parent itself, whatever the ids of the notes are, and null when n has   *)
(* no parent.                                                              *)
(***************************************************************************)
C14_UltimateRoot ==
  (pc[Walker].st = "done" /\ IsForest(relations)) =>
    LET start == pc[Walker].startNoteId
        ultimate == pc[Walker].ultimate
    IN  IF RowsOfNote(relations, start) = {}
        THEN ultimate = Null
        ELSE /\ ultimate \in Ancestors(relations, start)
             /\ RowsOfNote(relations, ultimate) = {}

(***************************************************************************)
(* C15 (termination): the ancestry query ends for every edge set, one with *)
(* a cycle reachable from the start note included: it never evaluates the  *)
(* recursive term more often than the table has rows (a query that does    *)
(* has come back to a row it has used, and goes on for ever).              *)
(***************************************************************************)
C15_TraversalTerminates ==
  pc[Walker].st = "cte" => pc[Walker].depth <= Cardinality(relations)

(***************************************************************************)
(* C16 (detach idempotence), as stated: unlinkParent on a note with no     *)
(* parent edge reports success (true) and changes nothing, so it does also *)
(* when called twice in a row, and getParent is null after the call.       *)
(***************************************************************************)
C16_DetachStep ==
  (reply'.op = "unlinkParent" /\ RowsOfNote(relations, reply'.noteId) = {}) =>
    /\ reply'.ret = "true"
    /\ relations' = relations
    /\ getParentNoteIdByNoteId(relations', reply'.noteId) = {Null}

C16_AmendedStep ==
  reply'.op = "unlinkParent" =>
    /\ getParentNoteIdByNoteId(relations', reply'.noteId) = {Null}
    /\ RowsOfNote(relations, reply'.noteId) = {} =>
         (reply'.ret = "false" /\ relations' = relations)

C17_Step ==
  (/\ reply'.op = "createNoteRelation"
   /\ \/ reply'.noteId = reply'.parentId
      \/ reply'.parentId \notin NoteIds(notes)) =>
    (reply'.ret = "throws" /\ relations' = relations)

C17_InvalidRelationRejected == [][C17_Step]_vars

(***************************************************************************)
(* One attach/reparent request running alone: the cycle check, then the    *)
(* write, over a forest that checked requests have built.                  *)
(***************************************************************************)
NextRelationRequest == RelationCheck(Walker) \/ RelationWrite(Walker)

SpecRelationRequest == InitRelationsRace /\ [][NextRelationRequest]_vars

(***************************************************************************)
(* C18 (cycle check before commit): an attach/reparent(noteId, parentId)   *)
(* with parentId = noteId, or with noteId among the ancestors of parentId, *)
(* ends with CycleDetected and writes or changes no edge; and no edge is   *)
(* written or changed except by a request whose check has passed.          *)
(***************************************************************************)
C18_Step ==
  LET loops == \/ pc[Walker].parentId = pc[Walker].noteId
               \/ pc[Walker].noteId \in Ancestors(relations, pc[Walker].parentId)
  IN  /\ (pc[Walker].st = "checked" /\ pc'[Walker].st = "done" /\ loops) =>
           (pc'[Walker].out = "CycleDetected" /\ relations' = relations)
      /\ relations' # relations => (pc[Walker].st = "checked" /\ ~loops)

C19_Step ==
  (/\ reply'.op = "updateNoteRelationById"
   /\ NoteRelationsModel(notes, reply'.noteId, reply'.parentId)) =>
    /\ reply'.ret = "true"
    /\ Cardinality(RowsOfNote(relations', reply'.noteId)) = 1
    /\ getParentNoteIdByNoteId(relations', reply'.noteId) = {reply'.parentId}

C19_ReparentReplacesOrInserts == [][C19_Step]_vars

(***************************************************************************)
(* C19 amended: updateNoteRelationById(noteId, newParentId) with existing  *)
(* notes never inserts: it sets the parent of every edge of noteId to      *)
(* newParentId, leaves the edges of the other notes alone, and resolves to *)
(* true exactly when noteId had one edge; when noteId has no edge it       *)
(* writes nothing, resolves to false and getParent(noteId) stays null.     *)
(***************************************************************************)
C19_AmendedStep ==
  (/\ reply'.op = "updateNoteRelationById"
   /\ NoteRelationsModel(notes, reply'.noteId, reply'.parentId)) =>
    LET before == RowsOfNote(relations, reply'.noteId)
        after == RowsOfNote(relations', reply'.noteId)
    IN  /\ {r.id : r \in after} = {r.id : r \in before}
        /\ \A r \in after : r.parentId = reply'.parentId
        /\ relations' \ after = relations \ before
        /\ reply'.ret = (IF Cardinality(before) = 1 THEN "true" ELSE "false")
        /\ getParentNoteIdByNoteId(relations', reply'.noteId) =
             (IF before = {} THEN {Null} ELSE {reply'.parentId})

C19_ReparentUpdatesOnly == [][C19_AmendedStep]_vars

\* a reparent of a note without an edge, under an existing note, has answered false
\* and the note still has no edge, while other notes have edges
C19_Witness ==
  /\ reply.op = "updateNoteRelationById" /\ reply.ret = "false"
  /\ NoteRelationsModel(notes, reply.noteId, reply.parentId)
  /\ RowsOfNote(relations, reply.noteId) = {}
  /\ relations # {}

(***************************************************************************)
(* C20 (removeAllEdgesTouching): deleteNoteRelationsByNoteId(n) removes    *)
(* exactly the edges in which n is the child or the parent: afterwards     *)
(* hasRelation(n) is false, every former child of n has no parent, and     *)
(* every edge that does not touch n is unchanged.                          *)
(***************************************************************************)
C20_Step ==
  reply'.op = "deleteNoteRelationsByNoteId" =>
    LET n == reply'.noteId
        touching == {r \in relations : r.noteId = n \/ r.parentId = n}
        children == {r.noteId : r \in {x \in relations : x.parentId = n}}
    IN  /\ relations' = relations \ touching
        /\ ~hasRelation(relations', n)
        /\ \A c \in children : getParentNoteIdByNoteId(relations', c) = {Null}

C20_RemoveAllEdgesTouching == [][C20_Step]_vars

\* the part of C20 that does not count the parents of a child: the rows touching n go,
\* the others stay
DeleteRemovesExactlyTouching ==
  [][reply'.op = "deleteNoteRelationsByNoteId" =>
       /\ relations' = {r \in relations : r.noteId # reply'.noteId
                                          /\ r.parentId # reply'.noteId}
       /\ ~hasRelation(relations', reply'.noteId)]_vars

(***************************************************************************)
(* hasRelation as a storage call among creates and deletes                 *)
(***************************************************************************)
HasRelation ==
  \E noteId \in RelArgIds :
    /\ reply' = StorageReply("hasRelation", noteId, Null,
                   IF hasRelation(relations, noteId) THEN "true" ELSE "false")
    /\ UNCHANGED <<relVars, noteVars, teamVars, pc, authVars>>

NextHasRelation ==
  \/ CreateNoteRelation
  \/ UnlinkParent
  \/ DeleteNoteRelationsByNoteId
  \/ HasRelation

SpecHasRelation == InitRelations /\ [][NextHasRelation]_vars

(***************************************************************************)
(* C21 (hasRelation): the call answers true exactly when the number of     *)
(* stored edges that have the note as child or as parent is not zero; it   *)
(* answers false for a note no edge touches, which includes a note never   *)
(* attached and a note whose last touching edge has been removed.          *)
(***************************************************************************)
C21_Step ==
  reply'.op = "hasRelation" =>
    LET touching == {r \in relations' : reply'.noteId \in {r.noteId, r.parentId}} IN
    /\ relations' = relations
    /\ (reply'.ret = "true") <=> (Cardinality(touching) >= 1)
    /\ (reply'.ret = "false") <=> (Cardinality(touching) = 0)

C21_HasRelationIffTouched == [][C21_Step]_vars

\* a note that is only a parent answers true while edges exist
C21_Witness ==
  /\ reply.op = "hasRelation" /\ reply.ret = "true"
  /\ RowsOfNote(relations, reply.noteId) = {}
  /\ \E r \in relations : r.parentId = reply.noteId

(***************************************************************************)
(* C22 (patchRole): for a user who is no member of the note the request is *)
(* answered not found and no team row changes; for a member the answer is  *)
(* a role, the member's row carries that role afterwards, and the rows are *)
(* the same rows otherwise: none created, none removed, no other member's  *)
(* role changed.                                                           *)
(***************************************************************************)
C22_Step ==
  reply'.op = "patchMemberRole" =>
    LET target == MembersOf(teams, reply'.noteId, reply'.userId) IN
    IF target = {}
    THEN reply'.out = "notFound" /\ teams' = teams
    ELSE /\ reply'.out \in MemberRoles
         /\ {m.id : m \in teams'} = {m.id : m \in teams}
         /\ Cardinality(teams') = Cardinality(teams)
         /\ \A m \in teams' :
              IF m.noteId = reply'.noteId /\ m.userId = reply'.userId
              THEN m.role = reply'.out /\ [m EXCEPT !.role = MemberRole_Read] \in
                     {[o EXCEPT !.role = MemberRole_Read] : o \in target}
              ELSE m \in teams

C23_Step ==
  reply'.op = "removeTeamMemberById" =>
    LET hit == {m \in teams : m.id = reply'.id} IN
    /\ \A m \in teams' : m.id # reply'.id
    /\ IF hit = {}
       THEN reply'.ret = FALSE /\ teams' = teams
       ELSE /\ reply'.ret = TRUE
            /\ teams' = teams \ hit
            /\ Cardinality(teams') = Cardinality(teams) - 1

C23_RemoveByIdResult == [][C23_Step]_vars

\* a removal of an id that was given out before resolves to false: the row is gone
\* already, and another member is still stored
C23_Witness ==
  /\ reply.op = "removeTeamMemberById" /\ reply.ret = FALSE
  /\ reply.id < nextTeamId
  /\ teams # {}

(***************************************************************************)
(* C24 (AlreadyMember): createTeamMember for a (noteId, userId) pair that  *)
(* has a row fails with AlreadyMember for each requested role, and the     *)
(* team rows, the existing row's role included, stay as they are.          *)
(***************************************************************************)
C24_Step ==
  (reply'.op = "createTeamMember"
     /\ MembersOf(teams, reply'.noteId, reply'.userId) # {}) =>
    /\ reply'.error = "AlreadyMember"
    /\ teams' = teams
    /\ nextTeamId' = nextTeamId

C24_AlreadyMemberKeepsRows == [][C24_Step]_vars

\* a create asking for the write role has been refused for a read member
C24_Witness ==
  /\ reply.op = "createTeamMember" /\ reply.error = "AlreadyMember"
  /\ reply.role = MemberRole_Write
  /\ \E m \in teams : m.noteId = reply.noteId /\ m.userId = reply.userId
                        /\ m.role = MemberRole_Read
  /\ Cardinality(teams) = 2

(***************************************************************************)
(* POST /note: noteService.addNote, then noteSettingsService.addNoteSettings*)
(* as two awaited calls of one handler, served for two requests at a time. *)
(***************************************************************************)
\* NoteRepository.addNote: one new note row
addNote(rows, id, creatorId) == rows \cup {[id |-> id, creatorId |-> creatorId]}

\* the id the settings table gives to its next row
NextSettingsId(rows) ==
  IF rows = {} THEN 1
  ELSE (CHOOSE r \in rows : \A o \in rows : o.id <= r.id).id + 1

SettingsOfNote(rows, noteId) == {r \in rows : r.noteId = noteId}

\* const addedNote = await noteService.addNote(content, userId, parentId)
PostNoteAddNote(p) ==
  \E userId \in Users :
    /\ pc[p] = Idle
    /\ nextNoteId <= MaxPostedNotes
    /\ notes' = addNote(notes, nextNoteId, userId)
    /\ nextNoteId' = nextNoteId + 1
    /\ pc' = [pc EXCEPT ![p] = [st |-> "added", noteId |-> nextNoteId]]
    /\ UNCHANGED <<noteSettings, nextHash, replaced, teamVars, relVars, reply, authVars>>

\* await noteSettingsService.addNoteSettings(addedNote.id); reply.send({ id })
PostNoteAddSettings(p) ==
  /\ pc[p].st = "added"
  /\ noteSettings' = addNoteSettings(noteSettings, NextSettingsId(noteSettings),
                                     pc[p].noteId, createInvitationHash(nextHash))
  /\ nextHash' = nextHash + 1
  /\ pc' = [pc EXCEPT ![p] = Idle]
  /\ reply' = [op |-> "postNote", noteId |-> pc[p].noteId, out |-> "sent"]
  /\ UNCHANGED <<notes, nextNoteId, replaced, teamVars, relVars, authVars>>

\* the settings insert rejects (the database refuses or loses the statement):
\* the handler throws after the note row is stored
PostNoteSettingsFail(p) ==
  /\ pc[p].st = "added"
  /\ pc' = [pc EXCEPT ![p] = Idle]
  /\ reply' = [op |-> "postNote", noteId |-> pc[p].noteId, out |-> "throws"]
  /\ UNCHANGED <<noteVars, teamVars, relVars, authVars>>

InitPostNote ==
  /\ StoreWithNotes(0)
  /\ EmptyTeams
  /\ NoSessions
  /\ relations = {}
  /\ nextRelId = 1
  /\ allChecked = TRUE
  /\ reply = NoReply
  /\ pc = [p \in Procs |-> Idle]

NextPostNote ==
  \E p \in Procs :
    \/ PostNoteAddNote(p)
    \/ PostNoteAddSettings(p)
    \/ PostNoteSettingsFail(p)

SpecPostNote == InitPostNote /\ [][NextPostNote]_vars

(***************************************************************************)
(* C25 (settings 1:1): in every reachable state each stored note has       *)
(* exactly one settings row, the states between the two inserts of POST /  *)
(* and the states after a failed settings insert included.                 *)
(***************************************************************************)
C25_OneSettingsPerNote ==
  \A n \in notes : Cardinality(SettingsOfNote(noteSettings, n.id)) = 1

\* apart from notes whose handler has not finished or has thrown, the rows are 1:1
NoteOfFinishedPostHasOneSettingsRow ==
  (reply.op = "postNote" /\ reply.out = "sent") =>
     Cardinality(SettingsOfNote(noteSettings, reply.noteId)) = 1

(***************************************************************************)
(* GET /notes?page: the list of the notes created by the caller, in        *)
(* portions.  The handler and the query are fixed by the router's tests:   *)
(* portions of 30 notes, pages 1..30, status 400 outside.                  *)
(***************************************************************************)
portionSize == 30

maxPage == 30

\* page numbers a request may carry
ListPages == 0..(maxPage + 1)

\* mutant: the schema takes page 0 for the first page
NoteListRouter_pageIsValid_fromZero(page) == page >= 0 /\ page <= maxPage

\* querystring schema: page is a number with minimum 1 and maximum maxPage
NoteListRouter_pageIsValid(page) == page >= 1 /\ page <= maxPage

\* position of id among the listed ids, counted from 1 in ascending order
ListPosition(ids, id) == Cardinality({o \in ids : o <= id})

\* ids of the notes a creator has
NoteIdsOfCreator(rows, creatorId) == {n.id : n \in {m \in rows : m.creatorId = creatorId}}

\* mutant: the offset counts pages from zero
getNoteListByCreatorId_zeroBased(rows, creatorId, page) ==
  LET offset == page * portionSize
      own == NoteIdsOfCreator(rows, creatorId) IN
  {id \in own : LET position == ListPosition(own, id) IN
                   position > offset /\ position <= offset + portionSize}

\* the creator's notes by id, OFFSET (page - 1) * portionSize LIMIT portionSize
getNoteListByCreatorId(rows, creatorId, page) ==
  LET offset == (page - 1) * portionSize
      own == NoteIdsOfCreator(rows, creatorId) IN
  {id \in own : LET position == ListPosition(own, id) IN
                   position > offset /\ position <= offset + portionSize}

NoteListReply(userId, page, status, hasList, items) ==
  [op |-> "getNoteList", userId |-> userId, page |-> page, status |-> status,
   hasList |-> hasList, items |-> items]

\* the handler reads only, so one request is followed per behaviour
GetNoteList ==
  \E userId \in Users, page \in ListPages :
    /\ reply = NoReply
    /\ reply' = IF NoteListRouter_pageIsValid(page)
                THEN NoteListReply(userId, page, 200, TRUE,
                                   getNoteListByCreatorId(notes, userId, page))
                ELSE NoteListReply(userId, page, 400, FALSE, {})
    /\ UNCHANGED <<relVars, noteVars, teamVars, pc, authVars>>

\* the tests' fixture: T note rows of user 1 inserted into the table, after one
\* note row of user 2 or none
InitNoteList ==
  /\ \E T \in 0..MaxListNotes, F \in 0..1 :
       /\ notes = {[id |-> n, creatorId |-> IF n <= F THEN 2 ELSE 1] : n \in 1..(F + T)}
       /\ nextNoteId = F + T + 1
  /\ noteSettings = {}
  /\ nextHash = 1
  /\ replaced = {}
  /\ EmptyTeams
  /\ NoSessions
  /\ relations = {}
  /\ nextRelId = 1
  /\ allChecked = TRUE
  /\ reply = NoReply
  /\ pc = [p \in Procs |-> Idle]

NextNoteList == GetNoteList

SpecNoteList == InitNoteList /\ [][NextNoteList]_vars

NotesOfCreator(creatorId) == {n \in notes : n.creatorId = creatorId}

(***************************************************************************)
(* C26 (pagination): a request of a user with T notes for a page p in      *)
(* 1..30 is answered 200 with min(30, max(0, T - 30*(p-1))) of the user's  *)
(* notes: 30 on a page before the last, the remainder on the last page,    *)
(* none past the last note.                                                *)
(***************************************************************************)
C26_PageLength ==
  (reply.op = "getNoteList" /\ reply.page \in 1..30) =>
    LET T == Cardinality(NotesOfCreator(reply.userId))
        rest == T - 30 * (reply.page - 1)
        expected == IF rest <= 0 THEN 0 ELSE IF rest >= 30 THEN 30 ELSE rest IN
    /\ reply.status = 200
    /\ reply.hasList
    /\ Cardinality(reply.items) = expected
    /\ reply.items \subseteq {n.id : n \in NotesOfCreator(reply.userId)}

\* the third page of a user with 61 notes holds the one remaining note
C26_Witness ==
  /\ reply.op = "getNoteList" /\ reply.page = 3 /\ reply.status = 200
  /\ Cardinality(NotesOfCreator(reply.userId)) = 61
  /\ Cardinality(reply.items) = 1

(***************************************************************************)
(* C27 (page bounds): a request for a page below 1 (0 in the tests) or     *)
(* above 30 (31 in the tests) is answered 400 and carries no note list.    *)
(***************************************************************************)
C27_PageOutOfRange ==
  (reply.op = "getNoteList" /\ (reply.page < 1 \/ reply.page > 30)) =>
    /\ reply.status = 400
    /\ ~reply.hasList
    /\ reply.items = {}

\* page 0 has been refused for a user who has notes
C27_Witness ==
  /\ reply.op = "getNoteList" /\ reply.page = 0 /\ reply.status = 400
  /\ NotesOfCreator(reply.userId) # {}

(***************************************************************************)
(* AuthRouter: POST /auth exchanges a refresh token for a new pair of      *)
(* tokens, POST /auth/logout removes the session of a refresh token.  Each *)
(* await of the handler is a step of its own.                              *)
(***************************************************************************)
Tokens == 1..MaxToken

\* AuthService.verifyRefreshToken: the sessions that carry the token (none: null)
verifyRefreshToken(rows, token) == {r \in rows : r.token = token}

\* AuthService.removeSessionByRefreshToken
removeSessionByRefreshToken(rows, token) == {r \in rows : r.token # token}

\* AuthService.signRefreshToken: a new session of the user with a fresh token
signRefreshToken(rows, token, userId) == rows \cup {[token |-> token, userId |-> userId]}

\* const userSession = await opts.authService.verifyRefreshToken(token)
AuthVerify(p) ==
  \E token \in Tokens :
    /\ pc[p] = Idle
    /\ pc' = [pc EXCEPT ![p] =
                IF verifyRefreshToken(sessions, token) = {}
                THEN [st |-> "done", token |-> token, userId |-> Null,
                      out |-> "Session is not valid", refreshToken |-> Null]
                ELSE [st |-> "verified", token |-> token,
                      userId |-> (CHOOSE r \in verifyRefreshToken(sessions, token) : TRUE).userId]]
    /\ UNCHANGED <<relVars, noteVars, teamVars, authVars, reply>>

\* signAccessToken; await opts.authService.removeSessionByRefreshToken(token)
AuthRemoveSession(p) ==
  /\ pc[p].st = "verified"
  /\ sessions' = removeSessionByRefreshToken(sessions, pc[p].token)
  /\ pc' = [pc EXCEPT ![p] = [st |-> "removed", token |-> pc[p].token,
                              userId |-> pc[p].userId]]
  /\ UNCHANGED <<relVars, noteVars, teamVars, nextToken, reply>>

\* const refreshToken = await opts.authService.signRefreshToken(userId); reply.send
AuthSignRefreshToken(p) ==
  /\ pc[p].st = "removed"
  /\ nextToken <= MaxToken
  /\ sessions' = signRefreshToken(sessions, nextToken, pc[p].userId)
  /\ nextToken' = nextToken + 1
  /\ pc' = [pc EXCEPT ![p] = [st |-> "done", token |-> pc[p].token,
                              userId |-> pc[p].userId, out |-> "tokens",
                              refreshToken |-> nextToken]]
  /\ UNCHANGED <<relVars, noteVars, teamVars, reply>>

\* POST /auth/logout
AuthLogout ==
  \E token \in Tokens :
    /\ sessions' = removeSessionByRefreshToken(sessions, token)
    /\ reply' = [op |-> "logout", token |-> token, data |-> "OK"]
    /\ UNCHANGED <<relVars, noteVars, teamVars, nextToken, pc>>

\* users 1 and 2 have signed in once each
InitAuth ==
  /\ StoreWithNotes(0)
  /\ EmptyTeams
  /\ sessions = {[token |-> u, userId |-> u] : u \in 1..2}
  /\ nextToken = 3
  /\ relations = {}
  /\ nextRelId = 1
  /\ allChecked = TRUE
  /\ reply = NoReply
  /\ pc = [p \in Procs |-> Idle]

NextAuth ==
  \/ \E p \in Procs : AuthVerify(p) \/ AuthRemoveSession(p) \/ AuthSignRefreshToken(p)
  \/ AuthLogout

SpecAuth == InitAuth /\ [][NextAuth]_vars

Exchanged(p, token) ==
  pc[p].st = "done" /\ pc[p].out = "tokens" /\ pc[p].token = token

(***************************************************************************)
(* C28 (single exchange of a refresh token): of two POST /auth requests    *)
(* that carry the same refresh token at most one is answered with new      *)
(* tokens, in every interleaving of their steps; the other one is answered *)
(* 'Session is not valid'.                                                 *)
(***************************************************************************)
C28_RefreshTokenExchangedOnce ==
  \A token \in Tokens : ~(Exchanged("r1", token) /\ Exchanged("r2", token))

\* a finished exchange has removed the session of its old token and stored one
\* session of the new token
ExchangeReplacesSession ==
  \A p \in Procs :
    (pc[p].st = "done" /\ pc[p].out = "tokens") =>
       /\ verifyRefreshToken(sessions, pc[p].token) = {}
       /\ pc[p].refreshToken # pc[p].token

(***************************************************************************)
(* Settings updates as the service runs them: patchNoteSettingsByNoteId    *)
(* reads the settings row of the note, then patches the row by its id; the *)
(* visibility patch and the hash regeneration both go through it, one      *)
(* request per caller, two callers at a time.                              *)
(***************************************************************************)
\* const { customHostname, isPublic } = request.body
PatchBodies ==
  [{"isPublic"} -> BOOLEAN] \cup [{"customHostname"} -> Hostnames \cup {""}]

\* mutant: the regeneration writes the default visibility with the new hash
regenerateData_withDefaults(hash) == [invitationHash |-> hash, isPublic |-> TRUE]

\* const data = { invitationHash: createInvitationHash() }
regenerateData(hash) == [invitationHash |-> hash]

SettingsRead(p, kind, noteId, data) ==
  pc' = [pc EXCEPT ![p] = [st |-> "read", kind |-> kind, noteId |-> noteId,
                           id |-> getNoteSettingsByNoteId(noteSettings, noteId).id,
                           data |-> data]]

\* PATCH /:notePublicId up to the service's getNoteSettingsByNoteId
SettingsPatchRead(p) ==
  \E noteId \in NoteIds(notes), data \in PatchBodies :
    /\ pc[p] = Idle
    /\ SettingsRead(p, "patch", noteId, data)
    /\ UNCHANGED <<noteVars, relVars, teamVars, authVars, reply>>

\* PATCH /:notePublicId/invitation-hash up to the service's getNoteSettingsByNoteId
SettingsRegenerateRead(p) ==
  \E noteId \in NoteIds(notes) :
    /\ pc[p] = Idle
    /\ nextHash <= MaxHash
    /\ nextHash' = nextHash + 1
    /\ SettingsRead(p, "regenerate", noteId, regenerateData(createInvitationHash(nextHash)))
    /\ UNCHANGED <<notes, nextNoteId, noteSettings, replaced, relVars, teamVars, authVars, reply>>

\* noteSettingsRepository.patchNoteSettingsById(noteSettings.id, data)
SettingsWrite(p) ==
  /\ pc[p].st = "read"
  /\ noteSettings' = patchNoteSettingsById(noteSettings, pc[p].id, pc[p].data)
  /\ replaced' = IF pc[p].kind = "regenerate"
                 THEN replaced \cup {r.invitationHash : r \in {o \in noteSettings : o.id = pc[p].id}}
                 ELSE replaced
  /\ pc' = [pc EXCEPT ![p] = [st |-> "done", kind |-> pc[p].kind,
                              noteId |-> pc[p].noteId, data |-> pc[p].data]]
  /\ UNCHANGED <<notes, nextNoteId, nextHash, relVars, teamVars, authVars, reply>>

NextSettingsRace ==
  \E p \in Procs : SettingsPatchRead(p) \/ SettingsRegenerateRead(p) \/ SettingsWrite(p)

SpecSettingsRace == Init /\ [][NextSettingsRace]_vars

(***************************************************************************)
(* C29 (settings frame): a write of a visibility patch leaves the note's   *)
(* invitationHash as it was, a write of a hash regeneration leaves its     *)
(* isPublic and customHostname as they were, each stores the fields it     *)
(* names, and neither adds, removes or changes a settings row of another   *)
(* note; when a patch and a regeneration of one note overlap, the fields   *)
(* the earlier write stored are still there after the later write.         *)
(***************************************************************************)
C29_Step ==
  \A p \in Procs :
    (pc[p].st = "read" /\ pc'[p].st = "done") =>
      LET noteId == pc[p].noteId
          data == pc[p].data IN
      /\ Cardinality(noteSettings') = Cardinality(noteSettings)
      /\ \A r \in noteSettings : r.noteId # noteId => r \in noteSettings'
      /\ \A n \in noteSettings' :
           n.noteId = noteId =>
             /\ \E r \in noteSettings :
                  /\ r.id = n.id /\ r.noteId = noteId
                  /\ pc[p].kind = "patch" => n.invitationHash = r.invitationHash
                  /\ pc[p].kind = "regenerate" =>
                       (n.isPublic = r.isPublic /\ n.customHostname = r.customHostname)
             /\ \A f \in DOMAIN data : n[f] = data[f]
             /\ \A q \in Procs :
                  (pc[q].st = "done" /\ pc[q].noteId = noteId /\ pc[q].kind # pc[p].kind) =>
                     \A f \in DOMAIN pc[q].data : n[f] = pc[q].data[f]

C29_SettingsUpdatesKeepOtherFields == [][C29_Step]_vars

\* a patch that made the note private and a regeneration of the same note have both
\* been written: the row is private and carries the new hash
C29_Witness ==
  /\ pc["r1"].st = "done" /\ pc["r2"].st = "done"
  /\ pc["r1"].kind = "patch" /\ pc["r2"].kind = "regenerate"
  /\ pc["r1"].noteId = pc["r2"].noteId
  /\ "isPublic" \in DOMAIN pc["r1"].data /\ pc["r1"].data.isPublic = FALSE
  /\ \E r \in noteSettings :
       /\ r.noteId = pc["r1"].noteId
       /\ r.isPublic = FALSE
       /\ r.invitationHash = pc["r2"].data.invitationHash
       /\ r.invitationHash \notin replaced

(***************************************************************************)
(* withUser middleware.  A header is absent or a string, written as the    *)
(* sequence of its parts: a scheme word and a token, one of them, or none.  *)
(***************************************************************************)
\* the access token signed for user u is the string of u; the last one is of no user
AccessTokens == {ToString(u) : u \in 1..(UserCount + 1)}

NoHeader == [present |-> FALSE, parts |-> <<>>]

Headers ==
  {NoHeader, [present |-> TRUE, parts |-> <<>>]}
    \cup {[present |-> TRUE, parts |-> <<t>>] : t \in AccessTokens}
    \cup {[present |-> TRUE, parts |-> <<s, t>>] :
             s \in {"Bearer ", "Basic "}, t \in AccessTokens}

\* notEmpty(value): the value is neither null nor undefined
notEmpty(header) == header.present

\* authorizationHeader.replace('Bearer ', ''): the first 'Bearer ' part is dropped
replaceBearer(parts) ==
  IF \E i \in 1..Len(parts) : parts[i] = "Bearer "
  THEN LET i == CHOOSE k \in 1..Len(parts) :
                  parts[k] = "Bearer " /\ \A j \in 1..(k - 1) : parts[j] # "Bearer "
       IN SubSeq(parts, 1, i - 1) \o SubSeq(parts, i + 1, Len(parts))
  ELSE parts

\* authService.verifyAccessToken: the payload's user id, Null when it throws
verifyAccessToken(token) ==
  IF Len(token) = 1 /\ \E u \in Users : token[1] = ToString(u)
  THEN CHOOSE u \in Users : token[1] = ToString(u)
  ELSE Null

\* mutant: done is called after the try block only, a thrown error leaves the hook
withUser_finally_afterTryOnly(req) ==
  IF req.thrown
  THEN [st |-> "returned", header |-> req.header, ctx |-> req.ctx,
        doneCalls |-> req.doneCalls, rejected |-> TRUE]
  ELSE [st |-> "returned", header |-> req.header, ctx |-> req.ctx,
        doneCalls |-> req.doneCalls + 1, rejected |-> FALSE]

\* finally { done(); return reply; }: the return replaces a thrown error
withUser_finally(req) ==
  [st |-> "returned", header |-> req.header, ctx |-> req.ctx,
   doneCalls |-> req.doneCalls + 1, rejected |-> FALSE]

\* the header test: without a header done() is called and the hook returns
WithUserHeader(p) ==
  \E header \in Headers :
    /\ pc[p] = Idle
    /\ pc' = [pc EXCEPT ![p] =
                IF ~notEmpty(header)
                THEN [st |-> "returned", header |-> header, ctx |-> Null,
                      doneCalls |-> 1, rejected |-> FALSE]
                ELSE [st |-> "try", header |-> header, ctx |-> Null, doneCalls |-> 0,
                      token |-> replaceBearer(header.parts)]]
    /\ UNCHANGED <<relVars, noteVars, teamVars, authVars, reply>>

\* try { tokenPayload = await verifyAccessToken(token); request.ctx = { auth } }
WithUserVerify(p) ==
  /\ pc[p].st = "try"
  /\ LET tokenPayload == verifyAccessToken(pc[p].token) IN
     pc' = [pc EXCEPT ![p] = [st |-> "finally", header |-> pc[p].header,
                              ctx |-> tokenPayload, doneCalls |-> pc[p].doneCalls,
                              thrown |-> (tokenPayload = Null)]]
  /\ UNCHANGED <<relVars, noteVars, teamVars, authVars, reply>>

WithUserFinally(p) ==
  /\ pc[p].st = "finally"
  /\ pc' = [pc EXCEPT ![p] = withUser_finally(pc[p])]
  /\ UNCHANGED <<relVars, noteVars, teamVars, authVars, reply>>

NextWithUser ==
  \E p \in Procs : WithUserHeader(p) \/ WithUserVerify(p) \/ WithUserFinally(p)

SpecWithUser == Init /\ [][NextWithUser]_vars

\* the header is the access token of the user, alone or after 'Bearer '
HeaderOfUser(header, userId) ==
  /\ userId \in Users
  /\ header.present
  /\ header.parts \in {<<ToString(userId)>>, <<"Bearer ", ToString(userId)>>}

====
